---- MODULE Spec2Model ----
(***************************************************************************)
(* Model of tools/train.py: parse_args() and main().                       *)
(*                                                                         *)
(* main() is one sequential procedure; pc is its position.  The external   *)
(* collaborators (set_random_seed, build_classifier, build_dataset,        *)
(* train_model, test_model, init_dist, get_dist_info) are opaque: each     *)
(* call is recorded in the history variable calls with the arguments       *)
(* main() hands over, builders return fresh objects, and test_model        *)
(* returns an arbitrary metric tuple.  A call is assumed to return.        *)
(*                                                                         *)
(* Python values are tagged records: None, bool, str, int.  Paths are      *)
(* sequences of one-character strings so that os.path functions can be     *)
(* computed.  A range/list of ints is a sequence of integers.              *)
(* cfgfile is the configuration after Config.fromfile and the merge of     *)
(* --options (lines 68-70); cfg is the Config object main() then updates.  *)
(***************************************************************************)
EXTENDS Integers, Sequences, FiniteSets, TLC

VARIABLES cli, args, cfgfile, cfg, world_size, distributed, pc, index_iter, seed,
          meta, nextId, model, base_dataset, datasets, ret,
          KAPPA, OA, AA, ELEMENT_ACC, calls, log

vars == <<cli, args, cfgfile, cfg, world_size, distributed, pc, index_iter, seed,
          meta, nextId, model, base_dataset, datasets, ret,
          KAPPA, OA, AA, ELEMENT_ACC, calls, log>>

----------------------------------------------------------------------------
(* Bounds of the model *)

MaxIter == 2        \* cfg.iter ranges over 0..MaxIter
MaxAcc == 1         \* metric values range over 0..MaxAcc
MaxWorld == 2       \* world_size of a distributed launch ranges over 1..MaxWorld
MaxGpus == 1        \* --gpus ranges over 1..MaxGpus, --gpu-ids over ids 0..MaxGpus
MaxSize == 3        \* options given + configuration entries set + cfg.iter

----------------------------------------------------------------------------
(* Python values *)

None == [t |-> "None"]
PyBool(b) == [t |-> "bool", v |-> b]
PyStr(s) == [t |-> "str", v |-> s]
PyInt(i) == [t |-> "int", v |-> i]
PyList(l) == [t |-> "list", v |-> l]

\* Truth value of an object as `not x` / `if x` see it: None, False and
\* the empty string are false, every other bool/str is true.
PyTruth(x) ==
    CASE x.t = "None" -> FALSE
      [] x.t = "bool" -> x.v
      [] x.t = "str"  -> x.v # ""
      [] x.t = "int"  -> x.v # 0
      [] x.t = "list" -> x.v # <<>>

\* range(n) as the sequence 0, 1, ..., n-1
Range(n) == [i \in 1..n |-> i - 1]

\* range(a, b) as the sequence a, a+1, ..., b-1 (empty when b <= a)
RangeFrom(a, b) == [i \in 1..(IF b > a THEN b - a ELSE 0) |-> a + i - 1]

----------------------------------------------------------------------------
(* os.path on character sequences *)

\* index of the last occurrence of c in p, 0 when there is none (str.rfind + 1)
RECURSIVE RFind(_, _, _)
RFind(p, c, i) ==
    IF i = 0 THEN 0
    ELSE IF p[i] = c THEN i
    ELSE RFind(p, c, i - 1)

\* posixpath.basename: what follows the last "/"
Basename(p) == SubSeq(p, RFind(p, "/", Len(p)) + 1, Len(p))

\* first index >= i of p that is not a ".", Len(p)+1 when there is none
RECURSIVE SkipDots(_, _)
SkipDots(p, i) ==
    IF i > Len(p) THEN i
    ELSE IF p[i] = "." THEN SkipDots(p, i + 1)
    ELSE i

\* posixpath.splitext(p)[0]: cut at the last "." after the last "/", unless
\* only dots precede it in the file name
SplitextRoot(p) ==
    LET sepIndex == RFind(p, "/", Len(p))
        dotIndex == RFind(p, ".", Len(p))
    IN  IF dotIndex > sepIndex /\ SkipDots(p, sepIndex + 1) < dotIndex
        THEN SubSeq(p, 1, dotIndex - 1)
        ELSE p

\* posixpath.join(a, b)
Join(a, b) ==
    IF Len(b) > 0 /\ b[1] = "/" THEN b
    ELSE IF Len(a) = 0 \/ a[Len(a)] = "/" THEN a \o b
    ELSE a \o <<"/">> \o b

DefaultConfig == <<".", ".", "/", "c", "/", "r", "5", "0", ".", "p", "y">>
DefaultWorkDir == <<".", ".", "/", "r", "e", "s", "u", "l", "t", "s">>
WorkDirsRoot == <<".", "/", "w", "o", "r", "k", "_", "d", "i", "r", "s">>
DefaultSeed == 2021

----------------------------------------------------------------------------
(* Command line and configuration file *)

\* What the user may type.  None stands for an option that is not given.
\* --device, --gpus and --gpu-ids form a mutually exclusive group.
CliConfigs == {None, PyStr(<<"m", ".", "p", "y">>)}
CliWorkDirs == {None, PyStr(<<"o", "u", "t">>)}
CliNoValidate == {None, PyStr(""), PyStr("False"), PyStr("0"), PyStr("True")}
CliSeeds == {None, PyInt(7)}
CliLaunchers == {None, PyStr("pytorch"), PyStr("mpi")}
GpuIdLists == {<<g>> : g \in 0..MaxGpus} \cup {<<MaxGpus, 0>>}
CliGpuGroup ==
    {[device |-> None, gpus |-> None, gpu_ids |-> None]}
    \cup {[device |-> PyStr("cuda"), gpus |-> None, gpu_ids |-> None]}
    \cup {[device |-> None, gpus |-> PyInt(g), gpu_ids |-> None] : g \in 1..MaxGpus}
    \cup {[device |-> None, gpus |-> None, gpu_ids |-> PyList(l)] : l \in GpuIdLists}

CommandLines ==
    {[config |-> cf, work_dir |-> w, no_validate |-> nv, seed |-> s,
      launcher |-> l, device |-> g.device, gpus |-> g.gpus, gpu_ids |-> g.gpu_ids] :
        cf \in CliConfigs, w \in CliWorkDirs, nv \in CliNoValidate,
        s \in CliSeeds, l \in CliLaunchers, g \in CliGpuGroup}

\* argparse: an option that is not given takes its default
Default(given, default) == IF given = None THEN default ELSE given

parse_args(c) ==
    [config      |-> Default(c.config, PyStr(DefaultConfig)),
     work_dir    |-> Default(c.work_dir, PyStr(DefaultWorkDir)),
     no_validate |-> Default(c.no_validate, PyBool(FALSE)),
     device      |-> Default(c.device, PyStr("cpu")),
     gpus        |-> c.gpus,
     gpu_ids     |-> c.gpu_ids,
     seed        |-> Default(c.seed, PyInt(DefaultSeed)),
     launcher    |-> Default(c.launcher, PyStr("none"))]

\* The merged configuration file: work_dir may be absent, iter is the
\* number of repetitions, workflow_len is len(cfg.workflow).  gpu_ids and
\* seed are set by main().
ConfigFiles ==
    {[work_dir |-> w, iter |-> n, workflow_len |-> k, gpu_ids |-> None, seed |-> None] :
        w \in {None, PyStr(<<"c", "f", "g">>)}, n \in 0..MaxIter, k \in {1, 2}}

\* Size of an input: the options the command line gives, the entries the
\* configuration sets (work_dir, a second workflow stage) and cfg.iter.
InputSize(c, f) ==
    Cardinality({o \in DOMAIN c : c[o] # None})
    + (IF f.work_dir # None THEN 1 ELSE 0)
    + (IF f.workflow_len = 2 THEN 1 ELSE 0)
    + f.iter

\* datasets[0].CLASSES, line 142: the classes each_acc has an entry for
CLASSES == {"c1"}

----------------------------------------------------------------------------
(* numpy reductions over lists of integers, as exact values *)

RECURSIVE Sum(_)
Sum(l) == IF l = <<>> THEN 0 ELSE l[1] + Sum(Tail(l))

RECURSIVE GCD(_, _)
GCD(a, b) == IF b = 0 THEN a ELSE GCD(b, a % b)

NaN == [nan |-> TRUE]

\* the rational number a / b in lowest terms (a >= 0, b > 0)
Frac(a, b) == LET g == GCD(a, b) IN [nan |-> FALSE, num |-> a \div g, den |-> b \div g]

\* np.mean of a list: nan for the empty list, else sum / n
NpMean(l) == IF l = <<>> THEN NaN ELSE Frac(Sum(l), Len(l))

\* np.std of a list (population standard deviation, ddof = 0): nan for the
\* empty list, else sqrt(mean(x^2) - mean(x)^2).  The value is represented
\* by its square, the exact rational (n * sum(x^2) - sum(x)^2) / n^2.
NpStd(l) ==
    IF l = <<>> THEN NaN
    ELSE LET n == Len(l)
             sq == [i \in 1..n |-> l[i] * l[i]]
         IN  Frac(n * Sum(sq) - Sum(l) * Sum(l), n * n)

\* entry j of every vector of a list of vectors
Column(m, j) == [i \in 1..Len(m) |-> m[i][j]]

\* np.mean(m, axis=0) and np.std(m, axis=0) of a list of vectors
NpMeanAxis0(m) == IF m = <<>> THEN NaN ELSE [j \in CLASSES |-> NpMean(Column(m, j))]
NpStdAxis0(m) == IF m = <<>> THEN NaN ELSE [j \in CLASSES |-> NpStd(Column(m, j))]

----------------------------------------------------------------------------
(* State after parse_args() and Config.fromfile, lines 66-70 *)

Init ==
    /\ cli \in CommandLines
    /\ args = parse_args(cli)
    /\ cfgfile \in ConfigFiles
    /\ InputSize(cli, cfgfile) <= MaxSize
    /\ cfg = cfgfile
    /\ world_size = 1
    /\ distributed = FALSE
    /\ pc = "work_dir"
    /\ index_iter = 0
    /\ seed = <<>>
    /\ meta = [seed |-> None]
    /\ nextId = 1
    /\ model = None
    /\ base_dataset = None
    /\ datasets = <<>>
    /\ ret = None
    /\ KAPPA = <<>>
    /\ OA = <<>>
    /\ AA = <<>>
    /\ ELEMENT_ACC = <<>>
    /\ calls = <<>>
    /\ log = None

----------------------------------------------------------------------------
(* main(): set-up *)

\* lines 75-81
WorkDir(a, c) ==
    IF a.work_dir # None THEN a.work_dir
    ELSE IF c.work_dir = None
         THEN PyStr(Join(WorkDirsRoot, SplitextRoot(Basename(a.config.v))))
         ELSE c.work_dir

SetWorkDir ==
    /\ pc = "work_dir"
    /\ cfg' = [cfg EXCEPT !.work_dir = WorkDir(args, cfg)]
    /\ pc' = "gpu_ids"
    /\ UNCHANGED <<cli, args, cfgfile, world_size, distributed, index_iter, seed, meta,
                   nextId, model, base_dataset, datasets, ret,
                   KAPPA, OA, AA, ELEMENT_ACC, calls, log>>

\* lines 84-87
GpuIds(a) ==
    IF a.gpu_ids # None THEN a.gpu_ids
    ELSE IF a.gpus = None THEN PyList(Range(1))
    ELSE PyList(Range(a.gpus.v))

SetGpuIds ==
    /\ pc = "gpu_ids"
    /\ cfg' = [cfg EXCEPT !.gpu_ids = GpuIds(args)]
    /\ pc' = "dist"
    /\ UNCHANGED <<cli, args, cfgfile, world_size, distributed, index_iter, seed, meta,
                   nextId, model, base_dataset, datasets, ret,
                   KAPPA, OA, AA, ELEMENT_ACC, calls, log>>

\* variant: the launcher does not change cfg.gpu_ids
DistGpuIdsKept(a, c, ws) == c.gpu_ids

\* lines 90-96: cfg.gpu_ids once the launcher is known; ws is the
\* world_size get_dist_info reports
DistGpuIds(a, c, ws) ==
    IF a.launcher = PyStr("none") THEN c.gpu_ids ELSE PyList(Range(ws))

InitDist ==
    /\ pc = "dist"
    /\ \E ws \in 1..MaxWorld :
        /\ world_size' = IF args.launcher = PyStr("none") THEN world_size ELSE ws
        /\ cfg' = [cfg EXCEPT !.gpu_ids = DistGpuIds(args, cfg, ws)]
    /\ distributed' = (args.launcher # PyStr("none"))
    /\ calls' = IF args.launcher = PyStr("none") THEN calls
                ELSE calls \o <<[fn |-> "init_dist", launcher |-> args.launcher],
                                [fn |-> "get_dist_info"]>>
    /\ pc' = "lists"
    /\ UNCHANGED <<cli, args, cfgfile, index_iter, seed, meta,
                   nextId, model, base_dataset, datasets, ret,
                   KAPPA, OA, AA, ELEMENT_ACC, log>>

\* variant: the same seed in every iteration
SeedListConstant(s, n) == [i \in 1..n |-> s]

\* line 122
SeedList(s, n) == RangeFrom(s, s + n)

\* lines 121-122
InitLists ==
    /\ pc = "lists"
    /\ KAPPA' = <<>> /\ OA' = <<>> /\ AA' = <<>> /\ ELEMENT_ACC' = <<>>
    /\ seed' = SeedList(args.seed.v, cfg.iter)
    /\ index_iter' = 0
    /\ pc' = "for"
    /\ UNCHANGED <<cli, args, cfgfile, cfg, world_size, distributed, meta,
                   nextId, model, base_dataset, datasets, ret, calls, log>>

----------------------------------------------------------------------------
(* main(): the seed loop, lines 123-173 *)

\* line 123: for index_iter in range(cfg.iter)
ForIter ==
    /\ pc = "for"
    /\ pc' = IF index_iter < cfg.iter THEN "set_seed" ELSE "summary"
    /\ UNCHANGED <<cli, args, cfgfile, cfg, world_size, distributed, index_iter, seed, meta,
                   nextId, model, base_dataset, datasets, ret,
                   KAPPA, OA, AA, ELEMENT_ACC, calls, log>>

\* seed[index_iter]; index_iter counts from 0, sequences from 1
SeedOfIter(l, i) == l[i + 1]

\* lines 125-130 (an int is never None, so set_random_seed is always called)
SetRandomSeed ==
    /\ pc = "set_seed"
    /\ LET s == SeedOfIter(seed, index_iter) IN
        /\ calls' = Append(calls, [fn |-> "set_random_seed", iter |-> index_iter, seed |-> s])
        /\ cfg' = [cfg EXCEPT !.seed = PyInt(s)]
        /\ meta' = [meta EXCEPT !.seed = PyInt(s)]
    /\ pc' = "build_classifier"
    /\ UNCHANGED <<cli, args, cfgfile, world_size, distributed, index_iter, seed,
                   nextId, model, base_dataset, datasets, ret,
                   KAPPA, OA, AA, ELEMENT_ACC, log>>

\* variant: the builder hands out one shared object
SharedObject(id) == [t |-> "object", id |-> 0]

\* the object a builder call returns: a new object, identified by id
NewObject(id) == [t |-> "object", id |-> id]

\* lines 132-133
BuildClassifier ==
    /\ pc = "build_classifier"
    /\ model' = NewObject(nextId)
    /\ nextId' = nextId + 1
    /\ calls' = calls \o <<[fn |-> "build_classifier", iter |-> index_iter, model |-> model'],
                           [fn |-> "init_weights", iter |-> index_iter, model |-> model']>>
    /\ pc' = "build_dataset"
    /\ UNCHANGED <<cli, args, cfgfile, cfg, world_size, distributed, index_iter, seed, meta,
                   base_dataset, datasets, ret, KAPPA, OA, AA, ELEMENT_ACC, log>>

\* base_dataset.train_dataset, .val_dataset, .test_dataset
Split(base, name) == [base |-> base, split |-> name]

\* lines 135-137
Datasets(base, workflow_len) ==
    IF workflow_len = 2
    THEN <<Split(base, "train"), Split(base, "val")>>
    ELSE <<Split(base, "train")>>

\* lines 134-142
BuildDataset ==
    /\ pc = "build_dataset"
    /\ base_dataset' = NewObject(nextId)
    /\ nextId' = nextId + 1
    /\ datasets' = Datasets(base_dataset', cfg.workflow_len)
    /\ calls' = Append(calls, [fn |-> "build_dataset", iter |-> index_iter, base |-> base_dataset'])
    /\ pc' = "train_model"
    /\ UNCHANGED <<cli, args, cfgfile, cfg, world_size, distributed, index_iter, seed, meta,
                   model, ret, KAPPA, OA, AA, ELEMENT_ACC, log>>

\* line 150: validate=(not args.no_validate)
Validate(a) == ~PyTruth(a.no_validate)

\* lines 152, 169: device='cpu' if args.device == 'cpu' else 'cuda'
Device(a) == IF a.device = PyStr("cpu") THEN "cpu" ELSE "cuda"

\* lines 145-153
TrainModel ==
    /\ pc = "train_model"
    /\ calls' = Append(calls, [fn |-> "train_model", iter |-> index_iter,
                               model |-> model, datasets |-> datasets, cfg |-> cfg,
                               distributed |-> distributed, validate |-> Validate(args),
                               device |-> Device(args), meta |-> meta])
    /\ pc' = "test_model"
    /\ UNCHANGED <<cli, args, cfgfile, cfg, world_size, distributed, index_iter, seed, meta,
                   nextId, model, base_dataset, datasets, ret,
                   KAPPA, OA, AA, ELEMENT_ACC, log>>

\* What test_model may return: metric values in 0..MaxAcc, each_acc with a
\* value per class; at most one value of a tuple is not 0.
NonZero(r) ==
    Cardinality({m \in {"overall_acc", "average_acc", "kappa"} : r[m] # 0})
    + Cardinality({c \in CLASSES : r.each_acc[c] # 0})

TestOutcomes ==
    {r \in [overall_acc : 0..MaxAcc, average_acc : 0..MaxAcc, kappa : 0..MaxAcc,
            each_acc : [CLASSES -> 0..MaxAcc]] : NonZero(r) <= 1}

\* lines 156-169
TestModel ==
    /\ pc = "test_model"
    /\ \E r \in TestOutcomes :
        /\ ret' = r
        /\ calls' = Append(calls, [fn |-> "test_model", iter |-> index_iter,
                                   model |-> model,
                                   test_dataset |-> Split(base_dataset, "test"),
                                   device |-> Device(args), ret |-> r])
    /\ pc' = "append_kappa"
    /\ UNCHANGED <<cli, args, cfgfile, cfg, world_size, distributed, index_iter, seed, meta,
                   nextId, model, base_dataset, datasets,
                   KAPPA, OA, AA, ELEMENT_ACC, log>>

\* line 170
AppendKappa ==
    /\ pc = "append_kappa"
    /\ KAPPA' = Append(KAPPA, ret.kappa)
    /\ pc' = "append_oa"
    /\ UNCHANGED <<cli, args, cfgfile, cfg, world_size, distributed, index_iter, seed, meta,
                   nextId, model, base_dataset, datasets, ret,
                   OA, AA, ELEMENT_ACC, calls, log>>

\* variant: line 171 appends the average accuracy
AppendOASwapped ==
    /\ pc = "append_oa"
    /\ OA' = Append(OA, ret.average_acc)
    /\ pc' = "append_aa"
    /\ UNCHANGED <<cli, args, cfgfile, cfg, world_size, distributed, index_iter, seed, meta,
                   nextId, model, base_dataset, datasets, ret,
                   KAPPA, AA, ELEMENT_ACC, calls, log>>

\* line 171
AppendOA ==
    /\ pc = "append_oa"
    /\ OA' = Append(OA, ret.overall_acc)
    /\ pc' = "append_aa"
    /\ UNCHANGED <<cli, args, cfgfile, cfg, world_size, distributed, index_iter, seed, meta,
                   nextId, model, base_dataset, datasets, ret,
                   KAPPA, AA, ELEMENT_ACC, calls, log>>

\* line 172
AppendAA ==
    /\ pc = "append_aa"
    /\ AA' = Append(AA, ret.average_acc)
    /\ pc' = "append_element_acc"
    /\ UNCHANGED <<cli, args, cfgfile, cfg, world_size, distributed, index_iter, seed, meta,
                   nextId, model, base_dataset, datasets, ret,
                   KAPPA, OA, ELEMENT_ACC, calls, log>>

\* line 173, then the next value of index_iter (line 123)
AppendElementAcc ==
    /\ pc = "append_element_acc"
    /\ ELEMENT_ACC' = Append(ELEMENT_ACC, ret.each_acc)
    /\ index_iter' = index_iter + 1
    /\ pc' = "for"
    /\ UNCHANGED <<cli, args, cfgfile, cfg, world_size, distributed, seed, meta,
                   nextId, model, base_dataset, datasets, ret,
                   KAPPA, OA, AA, calls, log>>

----------------------------------------------------------------------------
(* main(): the summary, lines 175-182 *)

\* the value logged after the "±" of each line
StdOfOALine(oa, aa, kappa) == NpStd(oa)        \* line 178
StdOfAALine(oa, aa, kappa) == NpStd(oa)        \* line 179
StdOfKappaLine(oa, aa, kappa) == NpStd(kappa)  \* line 180

LogSummary ==
    /\ pc = "summary"
    /\ log' = [OAs |-> OA, AAs |-> AA, KAPPAs |-> KAPPA,
               mean_OA |-> NpMean(OA), std_OA |-> StdOfOALine(OA, AA, KAPPA),
               mean_AA |-> NpMean(AA), std_AA |-> StdOfAALine(OA, AA, KAPPA),
               mean_KAPPA |-> NpMean(KAPPA), std_KAPPA |-> StdOfKappaLine(OA, AA, KAPPA),
               mean_ELEMENT_ACC |-> NpMeanAxis0(ELEMENT_ACC),
               std_ELEMENT_ACC |-> NpStdAxis0(ELEMENT_ACC)]
    /\ pc' = "done"
    /\ UNCHANGED <<cli, args, cfgfile, cfg, world_size, distributed, index_iter, seed, meta,
                   nextId, model, base_dataset, datasets, ret,
                   KAPPA, OA, AA, ELEMENT_ACC, calls>>

----------------------------------------------------------------------------

Next ==
    \/ SetWorkDir
    \/ SetGpuIds
    \/ InitDist
    \/ InitLists
    \/ ForIter
    \/ SetRandomSeed
    \/ BuildClassifier
    \/ BuildDataset
    \/ TrainModel
    \/ TestModel
    \/ AppendKappa
    \/ AppendOA
    \/ AppendAA
    \/ AppendElementAcc
    \/ LogSummary

Spec == Init /\ [][Next]_vars

TypeOK ==
    /\ pc \in {"work_dir", "gpu_ids", "dist", "lists", "for", "set_seed",
               "build_classifier", "build_dataset", "train_model", "test_model",
               "append_kappa", "append_oa", "append_aa", "append_element_acc",
               "summary", "done"}
    /\ index_iter \in 0..MaxIter
    /\ Len(OA) <= MaxIter

----------------------------------------------------------------------------
(* Calls of one external function, in call order *)

CallsOf(f) == SelectSeq(calls, LAMBDA c : c.fn = f)

\* positions in calls of the calls made in iteration i
IterPositions(i) ==
    {k \in 1..Len(calls) : calls[k].fn \notin {"init_dist", "get_dist_info"} /\ calls[k].iter = i}

InLoopBody ==
    pc \in {"set_seed", "build_classifier", "build_dataset", "train_model", "test_model",
            "append_kappa", "append_oa", "append_aa", "append_element_acc"}

InAppends == pc \in {"append_kappa", "append_oa", "append_aa", "append_element_acc"}

AfterLoop == pc \in {"summary", "done"}

----------------------------------------------------------------------------
(* C1 *)

\* C1: the work directory is the --work-dir of the command line when given,
\* else the work_dir of the configuration file when it defines one, else
\* ./work_dirs/<basename of the config file without extension>.
C1_WorkDirPriority ==
    pc # "work_dir" =>
        cfg.work_dir =
            IF cli.work_dir # None THEN cli.work_dir
            ELSE IF cfgfile.work_dir # None THEN cfgfile.work_dir
            ELSE PyStr(Join(WorkDirsRoot, SplitextRoot(Basename(args.config.v))))

----------------------------------------------------------------------------
(* C2 *)

\* C2: iteration i (from 0) calls set_random_seed once with seed s+i and
\* then train_model once with cfg.seed = meta['seed'] = s+i, where s is the
\* --seed value; after the loop there have been exactly cfg.iter iterations,
\* so the seeds are s..s+n-1 in increasing order without repetition, and
\* with cfg.iter = 0 train_model and test_model are never called.
C2_SeedPerIteration ==
    LET sc == CallsOf("set_random_seed")
        tc == CallsOf("train_model")
        s  == args.seed.v
    IN  /\ \A i \in 1..Len(sc) : sc[i].iter = i - 1 /\ sc[i].seed = s + i - 1
        /\ \A i \in 1..Len(tc) :
            /\ tc[i].iter = i - 1
            /\ tc[i].cfg.seed = PyInt(s + i - 1)
            /\ tc[i].meta.seed = PyInt(s + i - 1)
        /\ \A j, k \in 1..Len(calls) :
            (/\ calls[j].fn = "set_random_seed"
             /\ calls[k].fn = "train_model"
             /\ calls[j].iter = calls[k].iter) => j < k
        /\ Len(tc) <= Len(sc) /\ Len(sc) <= Len(tc) + 1
        /\ Len(sc) <= cfg.iter
        /\ AfterLoop => Len(sc) = cfg.iter /\ Len(tc) = cfg.iter
        /\ cfg.iter = 0 => CallsOf("train_model") = <<>> /\ CallsOf("test_model") = <<>>

C2_Witness ==
    /\ pc = "done"
    /\ cfg.iter >= 2
    /\ cli.seed # None
    /\ Len(CallsOf("train_model")) = cfg.iter

----------------------------------------------------------------------------
(* C3 *)

\* C3: in the summary each "mean_X ± std_X" line reports the standard
\* deviation of the list X itself, for X in OA, AA, KAPPA.
C3_StdOfSameList ==
    pc = "done" =>
        /\ log.mean_OA = NpMean(OA) /\ log.std_OA = NpStd(OA)
        /\ log.mean_AA = NpMean(AA) /\ log.std_AA = NpStd(AA)
        /\ log.mean_KAPPA = NpMean(KAPPA) /\ log.std_KAPPA = NpStd(KAPPA)

----------------------------------------------------------------------------
(* C4 *)

\* entry i of every result list is the component test_model returned in
\* iteration i
EntriesFromTestModel ==
    LET te == CallsOf("test_model")
    IN  /\ \A i \in 1..Len(te) : te[i].iter = i - 1
        /\ Len(KAPPA) <= Len(te) /\ Len(OA) <= Len(te)
        /\ Len(AA) <= Len(te) /\ Len(ELEMENT_ACC) <= Len(te)
        /\ \A i \in 1..Len(KAPPA) : KAPPA[i] = te[i].ret.kappa
        /\ \A i \in 1..Len(OA) : OA[i] = te[i].ret.overall_acc
        /\ \A i \in 1..Len(AA) : AA[i] = te[i].ret.average_acc
        /\ \A i \in 1..Len(ELEMENT_ACC) : ELEMENT_ACC[i] = te[i].ret.each_acc

SameLengthAsReturned ==
    LET n == Len(CallsOf("test_model"))
    IN  Len(OA) = n /\ Len(AA) = n /\ Len(KAPPA) = n /\ Len(ELEMENT_ACC) = n

\* C4 as stated: at every point of the seed loop the four lists have the
\* same length, the number of test_model calls that have returned; entry i
\* is what test_model returned in iteration i; at the summary each list has
\* cfg.iter entries.
C4_EveryPoint ==
    /\ (pc = "for" \/ InLoopBody) => SameLengthAsReturned
    /\ EntriesFromTestModel
    /\ AfterLoop => Len(OA) = cfg.iter /\ Len(AA) = cfg.iter
                    /\ Len(KAPPA) = cfg.iter /\ Len(ELEMENT_ACC) = cfg.iter

\* C4, amended: the lengths agree, and equal the number of returned
\* test_model calls, at every point of the seed loop outside lines 170-173,
\* where the four appends follow one another; the entries and the final
\* length are as stated.
C4_OutsideAppends ==
    /\ ((pc = "for" \/ InLoopBody) /\ ~InAppends) => SameLengthAsReturned
    /\ EntriesFromTestModel
    /\ AfterLoop => Len(OA) = cfg.iter /\ Len(AA) = cfg.iter
                    /\ Len(KAPPA) = cfg.iter /\ Len(ELEMENT_ACC) = cfg.iter

C4_Witness ==
    /\ pc = "train_model"
    /\ Len(OA) >= 1
    /\ OA[1] # AA[1]
    /\ Len(CallsOf("test_model")) = Len(ELEMENT_ACC)

----------------------------------------------------------------------------
(* C5 *)

\* what --gpu-ids / --gpus ask for
RequestedGpuIds ==
    IF cli.gpu_ids # None THEN cli.gpu_ids
    ELSE IF cli.gpus # None THEN PyList(Range(cli.gpus.v))
    ELSE PyList(Range(1))

\* C5: with --launcher none train_model gets cfg.gpu_ids = the --gpu-ids
\* list, else range(--gpus), else range(1); with any other launcher it gets
\* range(world_size), whatever --gpus or --gpu-ids say.
C5_GpuIds ==
    LET expected == IF args.launcher = PyStr("none")
                    THEN RequestedGpuIds
                    ELSE PyList(Range(world_size))
        tc == CallsOf("train_model")
    IN  /\ pc \notin {"work_dir", "gpu_ids", "dist"} => cfg.gpu_ids = expected
        /\ \A i \in 1..Len(tc) : tc[i].cfg.gpu_ids = expected

C5_Witness ==
    /\ args.launcher # PyStr("none")
    /\ cli.gpu_ids # None
    /\ CallsOf("train_model") # <<>>
    /\ cfg.gpu_ids # cli.gpu_ids

----------------------------------------------------------------------------
(* C6 *)

\* the option values that mean "true"
MeansTrue(x) == x \in {PyStr("True"), PyStr("true"), PyStr("1"), PyBool(TRUE)}

\* C6: train_model gets validate=True when --no-validate is absent or its
\* value means false, and validate=False only when its value means true;
\* the flag is the same in every iteration.
C6_ValidateFlag ==
    LET tc == CallsOf("train_model")
    IN  \A i \in 1..Len(tc) : tc[i].validate = ~MeansTrue(cli.no_validate)

----------------------------------------------------------------------------
(* C7 *)

LoopOrder == <<"set_random_seed", "build_classifier", "init_weights",
               "build_dataset", "train_model", "test_model">>

\* the calls of iteration i are, in call order, the first calls of LoopOrder
IterationInOrder(i) ==
    LET ps == IterPositions(i)
    IN  /\ Cardinality(ps) <= Len(LoopOrder)
        /\ \A k \in ps : calls[k].fn = LoopOrder[Cardinality({j \in ps : j <= k})]

\* C7: every iteration calls set_random_seed, build_classifier and
\* init_weights, build_dataset, train_model, test_model in this order;
\* test_model gets the model train_model has returned for in the same
\* iteration and the test split of the base dataset whose train split was
\* trained on; every iteration has a model and a dataset of its own.
C7_IterationOrder ==
    LET bc == CallsOf("build_classifier")
        bd == CallsOf("build_dataset")
        tc == CallsOf("train_model")
        te == CallsOf("test_model")
    IN  /\ \A i \in 0..MaxIter : IterationInOrder(i)
        /\ \A i \in 1..Len(te) :
            /\ i <= Len(tc)
            /\ tc[i].iter = te[i].iter
            /\ tc[i].model = te[i].model
            /\ tc[i].datasets[1] = Split(te[i].test_dataset.base, "train")
            /\ te[i].test_dataset.split = "test"
        /\ \A i \in 1..Len(tc) :
            /\ tc[i].model = bc[i].model
            /\ tc[i].datasets[1].base = bd[i].base
        /\ \A i, j \in 1..Len(bc) : i # j => bc[i].model # bc[j].model
        /\ \A i, j \in 1..Len(bd) : i # j => bd[i].base # bd[j].base
        /\ \A i, j \in 1..Len(tc) : i # j => tc[i].model # tc[j].model
        /\ \A i, j \in 1..Len(te) : i # j => te[i].model # te[j].model

C7_Witness ==
    /\ pc = "done"
    /\ Len(CallsOf("test_model")) >= 2
    /\ Len(CallsOf("build_dataset")) >= 2

====
